---- MODULE Spec2Model ----
(***************************************************************************)
(* PomodoroEngine of internal/core/engine.go: a deadline-based Pomodoro    *)
(* state machine.  One exclusive lock serialises Start, Pause, Resume,     *)
(* Stop and advance; every spawnLocked starts a goroutine (a "watcher")    *)
(* that selects between its timer's channel and its context's Done.        *)
(***************************************************************************)
EXTENDS Integers, Sequences, FiniteSets, TLC

(* ---------------------------------------------------------------------- *)
(* Bounds of the model                                                     *)
(* ---------------------------------------------------------------------- *)
MaxWatchers == 2      \* watcher goroutines alive at the same time
MaxTime     == 2      \* ticks of the wall clock in one behaviour
MaxDone     == 2      \* PomodoroDone is not taken beyond this

(* ---------------------------------------------------------------------- *)
(* Time                                                                    *)
(* ---------------------------------------------------------------------- *)
ZeroTime  == 0        \* time.Time{} : the unset sentinel of StartedAt/EndsAt
FakeEpoch == 10       \* time.Unix(0, 0), where the tests' fakeClock starts
WallEpoch == 20       \* time.Now() when the engine is constructed

Nil == 0              \* p.cancel == nil

Max(a, b) == IF a >= b THEN a ELSE b

PhaseWork       == "WORK"
PhaseShortBreak == "SHORT_BREAK"
PhaseLongBreak  == "LONG_BREAK"

\* Config values New is called with: New performs no validation, so a
\* cadence of 0 is among them.
Configs ==
    [Work : {2}, ShortBrk : {1}, LongBrk : {2}, LongEvery : {0, 1, 2}]

VARIABLES
    cfg,           \* p.cfg
    fake,          \* TRUE: p.clock is the tests' fakeClock, FALSE: realClock
    wall,          \* time.Now(), the wall clock time.Until reads
    fakeNow,       \* fakeClock.now
    last,          \* fakeClock.last: the watcher holding the newest fakeTimer
    state,         \* p.state
    pausedRemain,  \* p.pausedRemain
    cancel,        \* p.cancel: the watcher it cancels, or Nil
    onAdvance,     \* p.onAdvance != nil
    watchers,      \* the goroutines started by spawnLocked that have not
                   \* returned, oldest first
    notified,      \* the `go p.onAdvance(snapshot)` of the latest step, if any
    crashed,       \* a goroutine panicked (integer divide by zero)
    rt,            \* history: what the latest step started from and did
    mu             \* p.mu between two steps: "free", or its holder

vars == <<cfg, fake, wall, fakeNow, last, state, pausedRemain, cancel,
          onAdvance, watchers, notified, crashed, rt, mu>>

NoRT == [stage |-> "none", rem |-> 0, frozen |-> 0, phase |-> PhaseWork,
         done |-> 0, started |-> FALSE, gone |-> Nil, left |-> "none",
         self |-> FALSE]

(* ---------------------------------------------------------------------- *)
(* Clock and pure reads                                                    *)
(* ---------------------------------------------------------------------- *)
\* p.clock.Now()
ClockNow == IF fake THEN fakeNow ELSE wall

\* time.Until(t): always the wall clock, whatever p.clock is
Until(t) == t - wall

\* a Remaining() without the clamp at zero
Remaining_NoClamp ==
    IF state.Paused THEN pausedRemain
    ELSE Until(state.EndsAt)

\* Remaining()
Remaining ==
    IF state.Paused THEN Max(pausedRemain, 0)
    ELSE Max(Until(state.EndsAt), 0)

\* PhaseDuration(ph)
PhaseDuration(ph) ==
    CASE ph = PhaseWork       -> cfg.Work
      [] ph = PhaseShortBreak -> cfg.ShortBrk
      [] ph = PhaseLongBreak  -> cfg.LongBrk
      [] OTHER                -> 0

\* State{Phase: PhaseWork}, as New builds it
NewState ==
    [Phase |-> PhaseWork, StartedAt |-> ZeroTime, EndsAt |-> ZeroTime,
     PomodoroDone |-> 0, Paused |-> FALSE]

(* ---------------------------------------------------------------------- *)
(* Watchers                                                                *)
(* ---------------------------------------------------------------------- *)
\* a further goroutine can be started
HasFree(ws) == Len(ws) < MaxWatchers

\* ctx's cancel function: idempotent
CancelCtx(ws, c) ==
    IF c = Nil THEN ws ELSE [ws EXCEPT ![c].canceled = TRUE]

\* a timer that is never armed when d is 0
NewTimer_SkipZero(d) ==
    [st |-> "select", canceled |-> FALSE,
     tm |-> IF d = 0 THEN "off" ELSE "armed",
     deadline |-> IF fake THEN ZeroTime ELSE wall + Max(d, 0)]

\* the goroutine of spawnLocked at its select, with the timer
\* p.clock.NewTimer(d) made for it: a realTimer fires once the wall clock
\* reaches deadline; a fakeTimer ignores d and fires when the test says so.
NewTimer(d) ==
    [st |-> "select", canceled |-> FALSE, tm |-> "armed",
     deadline |-> IF fake THEN ZeroTime ELSE wall + Max(d, 0)]

\* spawnLocked() without the p.cancel() of lines 404-406
SpawnLocked_NoCancel(ws, c, endsAt) ==
    [watchers |-> Append(ws, NewTimer(Max(Until(endsAt), 0))),
     cancel   |-> Len(ws) + 1,
     d        |-> Max(Until(endsAt), 0)]

\* spawnLocked(): cancel the recorded watcher, record and start a new one
SpawnLocked(ws, c, endsAt) ==
    LET d == Max(Until(endsAt), 0)
    IN  [watchers |-> Append(CancelCtx(ws, c), NewTimer(d)),
         cancel   |-> Len(ws) + 1,
         d        |-> d]

\* stopLocked()
StopLocked(ws, c) ==
    [watchers |-> CancelCtx(ws, c), cancel |-> Nil]

\* fakeClock.NewTimer advances its logical time by d
AdvanceFake(d) == IF fake THEN fakeNow + d ELSE fakeNow

\* fakeClock.NewTimer records the timer it returns in f.last
NewLast(w) == IF fake THEN w ELSE last

\* no notification
NoNote == [kind |-> "none", snap |-> NewState]

\* a callback that reads p.state itself when it gets to run, after a Stop()
\* that came in between
Notify_ReadLater(kind, snap) ==
    IF onAdvance THEN [kind |-> kind, snap |-> NewState] ELSE NoNote

\* a notification that hands over the state as it was before the handler
\* changed it
Notify_OldSnapshot(kind, snap) ==
    IF onAdvance THEN [kind |-> kind, snap |-> state] ELSE NoNote

\* if p.onAdvance != nil { go p.onAdvance(p.state) }
Notify(kind, snap) ==
    IF onAdvance THEN [kind |-> kind, snap |-> snap] ELSE NoNote

\* a direct call p.onAdvance(p.state) of a callback that never returns: the
\* deferred Unlock never runs
GoOnAdvance_Inline(note) == IF note.kind # "none" THEN "subscriber" ELSE "free"

\* `go p.onAdvance(p.state)` followed by the handler's deferred
\* p.mu.Unlock(): the callback runs in a goroutine of its own, so p.mu is
\* released whether or not the callback ever returns
GoOnAdvance(note) == "free"

(* ---------------------------------------------------------------------- *)
(* Construction                                                            *)
(* ---------------------------------------------------------------------- *)
\* New(cfg), and newTestEngine's replacement of the clock
Init ==
    /\ cfg \in Configs
    /\ fake \in BOOLEAN
    /\ wall = WallEpoch
    /\ fakeNow = FakeEpoch
    /\ last = Nil
    /\ state = NewState
    /\ pausedRemain = 0
    /\ cancel = Nil
    /\ onAdvance = FALSE
    /\ watchers = <<>>
    /\ notified = NoNote
    /\ crashed = FALSE
    /\ rt = NoRT
    /\ mu = "free"

(* ---------------------------------------------------------------------- *)
(* Commands                                                                *)
(* ---------------------------------------------------------------------- *)
\* SetOnAdvance(fn): an unsynchronised write of p.onAdvance; a racing read
\* in Stop or advance sees nil or fn, which is the order of the two steps
SetOnAdvance ==
    /\ ~crashed
    /\ ~onAdvance
    /\ onAdvance' = TRUE
    /\ rt' = NoRT
    /\ notified' = NoNote
    /\ UNCHANGED <<mu, cfg, fake, wall, fakeNow, last, state, pausedRemain,
                   cancel,
                   watchers, crashed>>

\* a Start() that leaves p.pausedRemain as it is
Start_KeepFrozen ==
    /\ ~crashed
    /\ mu = "free"
    /\ HasFree(watchers)
    /\ LET now == ClockNow
           st  == [state EXCEPT !.Phase = PhaseWork, !.StartedAt = now,
                                !.EndsAt = now + cfg.Work, !.Paused = FALSE]
           sp  == SpawnLocked(watchers, cancel, st.EndsAt)
       IN  /\ state' = st
           /\ pausedRemain' = pausedRemain
           /\ watchers' = sp.watchers
           /\ cancel' = sp.cancel
           /\ fakeNow' = AdvanceFake(sp.d)
           /\ last' = NewLast(sp.cancel)
    /\ rt' = [NoRT EXCEPT !.stage = "started", !.phase = state.Phase,
                         !.done = state.PomodoroDone,
                         !.frozen = pausedRemain,
                         !.started = state.StartedAt # ZeroTime]
    /\ notified' = NoNote
    /\ UNCHANGED <<mu, cfg, fake, wall, onAdvance, crashed>>

\* Start()
Start ==
    /\ ~crashed
    /\ mu = "free"
    /\ HasFree(watchers)
    /\ LET now == ClockNow
           st  == [state EXCEPT !.Phase = PhaseWork, !.StartedAt = now,
                                !.EndsAt = now + cfg.Work, !.Paused = FALSE]
           sp  == SpawnLocked(watchers, cancel, st.EndsAt)
       IN  /\ state' = st
           /\ pausedRemain' = 0
           /\ watchers' = sp.watchers
           /\ cancel' = sp.cancel
           /\ fakeNow' = AdvanceFake(sp.d)
           /\ last' = NewLast(sp.cancel)
    /\ rt' = [NoRT EXCEPT !.stage = "started", !.phase = state.Phase,
                         !.done = state.PomodoroDone,
                         !.frozen = pausedRemain,
                         !.started = state.StartedAt # ZeroTime]
    /\ notified' = NoNote
    /\ UNCHANGED <<mu, cfg, fake, wall, onAdvance, crashed>>

\* Pause() without the early return of lines 363-365
Pause_NoGuard ==
    /\ ~crashed
    /\ mu = "free"
    /\ LET sl == StopLocked(watchers, cancel)
       IN  /\ pausedRemain' = Max(Until(state.EndsAt), 0)
           /\ state' = [state EXCEPT !.Paused = TRUE]
           /\ watchers' = sl.watchers
           /\ cancel' = sl.cancel
           /\ rt' = NoRT
    /\ notified' = NoNote
    /\ UNCHANGED <<mu, cfg, fake, wall, fakeNow, last, onAdvance, crashed>>

\* Pause()
Pause ==
    /\ ~crashed
    /\ mu = "free"
    /\ IF state.Paused
       THEN /\ rt' = [NoRT EXCEPT !.stage = "pause_noop"]
            /\ UNCHANGED <<state, pausedRemain, watchers, cancel>>
       ELSE LET rem == Max(Until(state.EndsAt), 0)
                sl  == StopLocked(watchers, cancel)
            IN  /\ pausedRemain' = rem
                /\ state' = [state EXCEPT !.Paused = TRUE]
                /\ watchers' = sl.watchers
                /\ cancel' = sl.cancel
                /\ rt' = [stage |-> "paused", rem |-> Remaining,
                          frozen |-> rem, phase |-> state.Phase,
                          done |-> state.PomodoroDone,
                          started |-> state.StartedAt # ZeroTime,
                          gone |-> Nil, left |-> "none", self |-> FALSE]
    /\ notified' = NoNote
    /\ UNCHANGED <<mu, cfg, fake, wall, fakeNow, last, onAdvance, crashed>>

\* a Resume() that restarts the phase from the full work duration
ResumeEndsAt_FullWork(now, pr) == now + cfg.Work

\* a Resume() that subtracts the frozen remaining
ResumeEndsAt_Minus(now, pr) == now - pr

\* p.state.EndsAt = now.Add(p.pausedRemain) in Resume
ResumeEndsAt(now, pr) == now + pr

\* a Resume() whose early return leaves p.mu locked
Resume_ReturnLocked ==
    /\ ~crashed
    /\ mu = "free"
    /\ IF ~state.Paused
       THEN /\ rt' = [NoRT EXCEPT !.stage = "resume_noop"]
            /\ mu' = "Resume"
            /\ UNCHANGED <<state, pausedRemain, watchers, cancel, fakeNow, last>>
       ELSE /\ HasFree(watchers)
            /\ LET now == ClockNow
                   pr  == Max(pausedRemain, 0)
                   st  == [state EXCEPT !.StartedAt = now,
                                        !.EndsAt = ResumeEndsAt(now, pr),
                                        !.Paused = FALSE]
                   sp  == SpawnLocked(watchers, cancel, st.EndsAt)
               IN  /\ state' = st
                   /\ pausedRemain' = 0
                   /\ watchers' = sp.watchers
                   /\ cancel' = sp.cancel
                   /\ fakeNow' = AdvanceFake(sp.d)
                   /\ last' = NewLast(sp.cancel)
                   /\ UNCHANGED mu
            /\ rt' = IF rt.stage = "paused"
                     THEN [rt EXCEPT !.stage = "resumed"]
                     ELSE [NoRT EXCEPT !.stage = "resume",
                                       !.frozen = Max(pausedRemain, 0)]
    /\ notified' = NoNote
    /\ UNCHANGED <<cfg, fake, wall, onAdvance, crashed>>

\* Resume()
Resume ==
    /\ ~crashed
    /\ mu = "free"
    /\ IF ~state.Paused
       THEN /\ rt' = [NoRT EXCEPT !.stage = "resume_noop"]
            /\ UNCHANGED <<state, pausedRemain, watchers, cancel, fakeNow, last>>
       ELSE /\ HasFree(watchers)
            /\ LET now == ClockNow
                   pr  == Max(pausedRemain, 0)
                   st  == [state EXCEPT !.StartedAt = now,
                                        !.EndsAt = ResumeEndsAt(now, pr),
                                        !.Paused = FALSE]
                   sp  == SpawnLocked(watchers, cancel, st.EndsAt)
               IN  /\ state' = st
                   /\ pausedRemain' = 0
                   /\ watchers' = sp.watchers
                   /\ cancel' = sp.cancel
                   /\ fakeNow' = AdvanceFake(sp.d)
                   /\ last' = NewLast(sp.cancel)
            /\ rt' = IF rt.stage = "paused"
                     THEN [rt EXCEPT !.stage = "resumed"]
                     ELSE [NoRT EXCEPT !.stage = "resume",
                                       !.frozen = Max(pausedRemain, 0)]
    /\ notified' = NoNote
    /\ UNCHANGED <<mu, cfg, fake, wall, onAdvance, crashed>>

\* a Stop() that carries PomodoroDone over
ResetState_KeepCount(s) ==
    [NewState EXCEPT !.PomodoroDone = s.PomodoroDone]

\* p.state = State{Phase: PhaseWork} in Stop
ResetState(s) ==
    [Phase |-> PhaseWork, StartedAt |-> ZeroTime, EndsAt |-> ZeroTime,
     PomodoroDone |-> 0, Paused |-> FALSE]

\* Stop()
Stop ==
    /\ ~crashed
    /\ mu = "free"
    /\ LET sl == StopLocked(watchers, cancel)
       IN  /\ watchers' = sl.watchers
           /\ cancel' = sl.cancel
    /\ state' = ResetState(state)
    /\ notified' = Notify("stop", state')
    /\ rt' = [NoRT EXCEPT !.stage = "stopped", !.done = state.PomodoroDone,
                         !.phase = state.Phase,
                         !.started = state.StartedAt # ZeroTime]
    /\ mu' = GoOnAdvance(notified')
    /\ UNCHANGED <<cfg, fake, wall, fakeNow, last, pausedRemain, onAdvance,
                   crashed>>

(* ---------------------------------------------------------------------- *)
(* The watcher goroutine and its timer                                     *)
(* ---------------------------------------------------------------------- *)
\* advance() without the long-break branch
NextBreak_AlwaysShort(done) == PhaseShortBreak

\* the cadence rule of advance(); the caller has excluded LongEvery = 0
NextBreak(done) ==
    IF done % cfg.LongEvery = 0 THEN PhaseLongBreak ELSE PhaseShortBreak

\* the timer of watcher w fires: realTimer at or after its deadline,
\* fakeTimer when the test calls fireLast (not stopped, channel empty)
TimerFire(w) ==
    /\ ~crashed
    /\ watchers[w].tm = "armed"
    /\ IF fake THEN w = last ELSE wall >= watchers[w].deadline
    /\ watchers' = [watchers EXCEPT ![w].tm = "fired", ![w].deadline = ZeroTime]
    /\ rt' = NoRT
    /\ notified' = NoNote
    /\ UNCHANGED <<mu, cfg, fake, wall, fakeNow, last, state, pausedRemain,
                   cancel,
                   onAdvance, crashed>>

\* select: case <-t.C() is ready and is the case taken.  A realTimer has
\* expired by then; a fakeTimer is not stopped and can be fired again.
SelectTimer(w) ==
    /\ ~crashed
    /\ watchers[w].st = "select"
    /\ watchers[w].tm = "fired"
    /\ watchers' = [watchers EXCEPT ![w].st = "lock",
                                    ![w].tm = IF fake THEN "armed" ELSE "off"]
    /\ rt' = NoRT
    /\ notified' = NoNote
    /\ UNCHANGED <<mu, cfg, fake, wall, fakeNow, last, state, pausedRemain,
                   cancel,
                   onAdvance, crashed>>

\* the goroutine returns through its deferred function (t.Stop(), and a
\* drain if the timer had fired): the watcher leaves the list, and a
\* fakeTimer it held is stopped, so that fireLast on it does nothing
Exit(ws, w) ==
    [i \in 1..(Len(ws) - 1) |-> IF i < w THEN ws[i] ELSE ws[i + 1]]

\* a deferred function that only stops the timer
DeferredStop_NoDrain(t) == IF t.tm = "fired" THEN "signal" ELSE "stopped"

\* the deferred function of the goroutine, `if !t.Stop() { drain }`, and what
\* it leaves of the timer.  realTimer.Stop reports false for a timer that has
\* fired, and the value, if still in the channel, is taken out; fakeTimer.Stop
\* sets stopped and reports true whatever happened, so a value that fireLast
\* put into the channel stays there.
DeferredStop(t) ==
    IF t.tm # "fired" THEN "stopped"
    ELSE IF fake THEN "signal" ELSE "drained"

\* what a reference into the list becomes when watcher w leaves it
Shift(ref, w) ==
    IF ref = w THEN Nil ELSE IF ref > w THEN ref - 1 ELSE ref

\* select: case <-ctx.Done() is ready and is the case taken
SelectDone(w) ==
    /\ ~crashed
    /\ watchers[w].st = "select"
    /\ watchers[w].canceled
    /\ watchers' = Exit(watchers, w)
    /\ cancel' = Shift(cancel, w)
    /\ last' = Shift(last, w)
    /\ rt' = [NoRT EXCEPT !.stage = "exit", !.gone = w,
                         !.left = DeferredStop(watchers[w])]
    /\ notified' = NoNote
    /\ UNCHANGED <<mu, cfg, fake, wall, fakeNow, state, pausedRemain,
                   onAdvance,
                   crashed>>

\* advance(), called by watcher w once it holds the lock, and the return of
\* the goroutine through its deferred function
Advance(w) ==
    /\ ~crashed
    /\ mu = "free"
    /\ watchers[w].st = "lock"
    /\ IF state.Phase = PhaseWork /\ cfg.LongEvery = 0
       THEN \* PomodoroDone % 0 panics after the increment, and the panic
            \* of a goroutine ends the process
            /\ state' = [state EXCEPT !.PomodoroDone = @ + 1,
                                      !.StartedAt = ClockNow]
            /\ crashed' = TRUE
            /\ watchers' = [watchers EXCEPT ![w].st = "panic"]
            /\ notified' = NoNote
            /\ UNCHANGED <<cancel, fakeNow, last>>
       ELSE /\ state.Phase = PhaseWork => state.PomodoroDone < MaxDone
            /\ LET now  == ClockNow
                   done == state.PomodoroDone + 1
                   st   == IF state.Phase = PhaseWork
                           THEN [state EXCEPT
                                   !.PomodoroDone = done,
                                   !.StartedAt = now,
                                   !.Phase = NextBreak(done),
                                   !.EndsAt = now + PhaseDuration(NextBreak(done))]
                           ELSE [state EXCEPT
                                   !.Phase = PhaseWork,
                                   !.StartedAt = now,
                                   !.EndsAt = now + cfg.Work]
                   sp   == SpawnLocked(watchers, cancel, st.EndsAt)
               IN  /\ state' = st
                   /\ watchers' = Exit(sp.watchers, w)
                   /\ cancel' = Shift(sp.cancel, w)
                   /\ fakeNow' = AdvanceFake(sp.d)
                   /\ last' = Shift(NewLast(sp.cancel), w)
                   /\ notified' = Notify("advance", st)
            /\ UNCHANGED crashed
    /\ rt' = IF crashed' THEN NoRT
             ELSE [NoRT EXCEPT !.stage = "advanced", !.gone = w,
                               !.left = DeferredStop(watchers[w]),
                               !.self = (cancel = w)]
    /\ mu' = GoOnAdvance(notified')
    /\ UNCHANGED <<cfg, fake, wall, pausedRemain, onAdvance>>

\* the wall clock advances
Tick ==
    /\ ~crashed
    /\ wall < WallEpoch + MaxTime
    /\ wall' = wall + 1
    /\ rt' = NoRT
    /\ notified' = NoNote
    /\ UNCHANGED <<mu, cfg, fake, fakeNow, last, state, pausedRemain,
                   cancel,
                   onAdvance, watchers, crashed>>

Next ==
    \/ SetOnAdvance
    \/ Start
    \/ Pause
    \/ Resume
    \/ Stop
    \/ Tick
    \/ \E w \in DOMAIN watchers : TimerFire(w)
    \/ \E w \in DOMAIN watchers : SelectTimer(w)
    \/ \E w \in DOMAIN watchers : SelectDone(w)
    \/ \E w \in DOMAIN watchers : Advance(w)

Spec == Init /\ [][Next]_vars

\* A step of the runtime: a realTimer whose deadline has passed delivers on
\* its channel, a goroutine whose select has a ready case takes one, or a
\* goroutine waiting for p.mu gets it.  A fakeTimer fires only when a test
\* calls fireLast, which nothing obliges it to do.
Runtime ==
    \E w \in DOMAIN watchers :
        \/ ~fake /\ TimerFire(w)
        \/ SelectTimer(w)
        \/ SelectDone(w)
        \/ Advance(w)

\* the runtime does not stop while one of its steps is possible
Fairness == WF_vars(Runtime)

\* a step of the goroutine that is the w-th oldest watcher
WatcherStep(w) ==
    /\ w \in DOMAIN watchers
    /\ SelectTimer(w) \/ SelectDone(w) \/ Advance(w)

\* the scheduler runs every goroutine that can take a step
WatcherFairness == \A w \in 1..MaxWatchers : WF_vars(WatcherStep(w))

WatcherFairSpec == Spec /\ WatcherFairness

FairSpec == Spec /\ Fairness

(* ---------------------------------------------------------------------- *)
(* Properties                                                              *)
(* ---------------------------------------------------------------------- *)
\* the watchers whose cancellation has not been requested
Active == {w \in DOMAIN watchers : ~watchers[w].canceled}

\* the engine as New and Stop leave it: idle shape, no watcher recorded
IsIdle == state = NewState /\ cancel = Nil

\* the cadence the engine was constructed with is one advance() can divide by
ValidCadence == cfg.LongEvery >= 1

TypeOK ==
    /\ cfg \in Configs
    /\ state.Phase \in {PhaseWork, PhaseShortBreak, PhaseLongBreak}
    /\ cancel \in {Nil} \cup DOMAIN watchers
    /\ last \in {Nil} \cup DOMAIN watchers
    /\ Len(watchers) <= MaxWatchers

\* C1: in every reachable state at most one watcher exists whose
\* cancellation has not been requested, and it is the one p.cancel records
\* (none when p.cancel is nil).
C1_AtMostOneActiveWatcher ==
    /\ Cardinality(Active) <= 1
    /\ Active = IF cancel = Nil THEN {} ELSE {cancel}

\* a replaced watcher that has taken its timer's signal waits for the lock
\* next to its un-canceled successor
C1_Witness ==
    /\ Len(watchers) = 2
    /\ cancel # Nil
    /\ \E w \in DOMAIN watchers :
          watchers[w].canceled /\ watchers[w].st = "lock"

\* C2: a watcher canceled before its advance() acquired the lock performs
\* no mutation: when it finishes, the state and the handle are what the
\* canceling command left (stated for engines with cadence >= 1).
C2_CanceledWatcherNoMutation ==
    [][\A w \in DOMAIN watchers :
          (ValidCadence /\ watchers[w].canceled /\ Advance(w)) =>
              /\ state' = state
              /\ cancel' = Shift(cancel, w)
              /\ Len(watchers') = Len(watchers) - 1]_vars

\* C3: after Stop() has returned, nothing but a command moves the engine:
\* no step of a watcher or timer changes the idle state or issues a
\* notification (stated for engines with cadence >= 1).
C3_NoTransitionAfterStop ==
    [][(ValidCadence /\ IsIdle /\ ~(Start \/ Pause \/ Resume \/ Stop)) =>
          (state' = state /\ cancel' = Nil /\ notified' = NoNote)]_vars

\* C4 as claimed: Stop() resets to the idle shape and leaves PomodoroDone
\* as it was.
C4_StopKeepsCount ==
    rt.stage = "stopped" =>
        /\ state.Phase = PhaseWork
        /\ state.StartedAt = ZeroTime
        /\ ~state.Paused
        /\ state.PomodoroDone = rt.done

\* C4 amended: Stop() leaves exactly State{Phase: PhaseWork}: idle shape
\* and PomodoroDone = 0, whatever the count was before.
C4_StopResetsCount ==
    rt.stage = "stopped" =>
        /\ state.Phase = PhaseWork
        /\ state.StartedAt = ZeroTime
        /\ state.EndsAt = ZeroTime
        /\ ~state.Paused
        /\ state.PomodoroDone = 0
        /\ cancel = Nil

\* Stop() has just run on an engine that had completed a WORK phase
C4_Witness ==
    rt.stage = "stopped" /\ rt.done >= 1 /\ state.PomodoroDone = 0

\* C5: with cadence k >= 1, a WORK deadline adds one to PomodoroDone and
\* goes to LONG_BREAK exactly when the new count is a multiple of k, else to
\* SHORT_BREAK; a break deadline goes to WORK and keeps the count; so a
\* LONG_BREAK is only ever held at a positive multiple of k and a
\* SHORT_BREAK at a non-multiple.
C5_Cadence ==
    /\ [](ValidCadence =>
            /\ state.Phase = PhaseLongBreak =>
                  state.PomodoroDone >= 1 /\ state.PomodoroDone % cfg.LongEvery = 0
            /\ state.Phase = PhaseShortBreak =>
                  state.PomodoroDone % cfg.LongEvery # 0)
    /\ [][\A w \in DOMAIN watchers :
            (ValidCadence /\ Advance(w)) =>
                IF state.Phase = PhaseWork
                THEN /\ state'.PomodoroDone = state.PomodoroDone + 1
                     /\ state'.Phase =
                          IF state'.PomodoroDone % cfg.LongEvery = 0
                          THEN PhaseLongBreak ELSE PhaseShortBreak
                ELSE /\ state'.Phase = PhaseWork
                     /\ state'.PomodoroDone = state.PomodoroDone]_vars

\* the scenario of cadence 2: the second completed WORK phase has led to
\* LONG_BREAK
C5_Witness ==
    /\ cfg.LongEvery = 2
    /\ state.Phase = PhaseLongBreak
    /\ state.PomodoroDone = 2

\* C6: no engine is constructed with cadence 0, so no reachable state
\* evaluates PomodoroDone % LongEvery with LongEvery = 0.
C6_NoModuloByZero ==
    ~crashed

\* C7: Pause() then Resume() with nothing in between leaves Remaining(),
\* the phase and PomodoroDone as they were before the Pause, and the new
\* deadline is the time of the Resume plus the remaining Pause froze.
C7_PauseResumeRoundTrip ==
    rt.stage = "resumed" =>
        /\ Remaining = rt.rem
        /\ state.Phase = rt.phase
        /\ state.PomodoroDone = rt.done
        /\ state.EndsAt = ClockNow + rt.frozen
        /\ ~state.Paused

\* a started engine with time left was paused and resumed at once
C7_Witness ==
    rt.stage = "resumed" /\ rt.started /\ rt.rem = 1 /\ Remaining = 1

\* C8: while the engine is paused, the state and Remaining() change only
\* by Resume, Start or Stop (stated for engines with cadence >= 1).
C8_PausedFrozen ==
    [][(ValidCadence /\ state.Paused /\ ~(Resume \/ Start \/ Stop)) =>
          (state' = state /\ Remaining' = Remaining)]_vars

\* C9: while paused there is no un-canceled watcher and the handle is nil
\* (stated for engines with cadence >= 1).
C9_NoWatcherWhilePaused ==
    (ValidCadence /\ state.Paused) => (cancel = Nil /\ Active = {})

\* C10: Pause() on a paused engine and Resume() on an engine that is not
\* paused change neither the state, nor the frozen remaining, nor the
\* watchers and their timers, nor the handle.
C10_GuardedNoOps ==
    [][((Pause /\ state.Paused) \/ (Resume /\ ~state.Paused)) =>
          UNCHANGED <<state, pausedRemain, cancel, watchers, fakeNow, last>>]_vars

\* a second Pause() has just returned on an engine whose deadline has come
\* nearer since the first froze the remaining
C10_Witness ==
    /\ rt.stage = "pause_noop"
    /\ state.Paused
    /\ pausedRemain > Max(Until(state.EndsAt), 0)

\* C11: Start() called in any state leaves phase WORK, paused false,
\* startedAt = now, endsAt = now + work duration, the frozen remaining
\* cleared and PomodoroDone as it was; every watcher but the newest is
\* canceled, and the newest is the recorded one, waiting at its select with
\* its timer armed (a realTimer for the new deadline).
C11_StartRestarts ==
    rt.stage = "started" =>
        /\ state.Phase = PhaseWork
        /\ ~state.Paused
        /\ state.StartedAt = ClockNow
        /\ state.EndsAt = ClockNow + cfg.Work
        /\ pausedRemain = 0
        /\ state.PomodoroDone = rt.done
        /\ cancel = Len(watchers)
        /\ Active = {cancel}
        /\ watchers[cancel].st = "select"
        /\ watchers[cancel].tm = "armed"
        /\ ~fake => watchers[cancel].deadline = state.EndsAt

\* Start() has just restarted an engine that was paused in a break with
\* time frozen, a completed WORK phase and a watcher still alive
C11_Witness ==
    /\ rt.stage = "started"
    /\ rt.phase # PhaseWork
    /\ rt.frozen > 0
    /\ rt.done >= 1
    /\ Len(watchers) = 2

\* C12: for a Config with LongEvery >= 1, Remaining() read right after
\* Start() equals the work duration counted on the engine's Clock; until the
\* next command or transition a later read is never larger than an earlier
\* one; and once the Clock has reached EndsAt a running engine reads 0.
C12_RemainingFromStart ==
    /\ [](ValidCadence =>
            /\ rt.stage = "started" => Remaining = cfg.Work
            /\ (~state.Paused /\ ClockNow >= state.EndsAt) => Remaining = 0)
    /\ [][(ValidCadence /\ (Tick \/ SetOnAdvance \/ \E w \in DOMAIN watchers :
                TimerFire(w) \/ SelectTimer(w) \/ SelectDone(w))) =>
                Remaining' <= Remaining]_vars

\* C13: in every reachable state Remaining() is at least 0, also when the
\* deadline has passed, when the engine is idle (EndsAt unset) and when it is
\* paused, and the frozen remaining p.pausedRemain is never negative.
C13_RemainingNonNegative ==
    /\ Remaining >= 0
    /\ pausedRemain >= 0

\* a running engine is read after its deadline has passed and before its
\* watcher has made the transition
C13_Witness ==
    /\ state.StartedAt # ZeroTime
    /\ ~state.Paused
    /\ Until(state.EndsAt) < 0
    /\ cancel # Nil
    /\ Remaining = 0

\* C14: with LongEvery >= 1, every step that changes PomodoroDone upwards
\* raises it by exactly 1 and is the advance() of the un-canceled watcher of
\* a WORK phase that is running, i.e. one not restarted, paused or stopped
\* since that watcher was spawned; no command raises the count.
C14_CountOnlyOnCompletedWork ==
    [][(ValidCadence /\ state'.PomodoroDone > state.PomodoroDone) =>
          /\ state'.PomodoroDone = state.PomodoroDone + 1
          /\ ~(Start \/ Pause \/ Resume \/ Stop)
          /\ \E w \in Active : Advance(w)
          /\ state.Phase = PhaseWork
          /\ ~state.Paused
          /\ state.StartedAt # ZeroTime]_vars

\* C15: with LongEvery >= 1 and a subscriber registered, every step that
\* changes state.Phase (a deadline transition, a Stop, or a Start issued
\* during a break) issues a notification that carries the new state.
C15_NotifiedOnEveryPhaseChange ==
    [][(ValidCadence /\ onAdvance /\ state'.Phase # state.Phase) =>
          (notified'.kind # "none" /\ notified'.snap = state')]_vars

C17_NoCallbackAfterStop ==
    [][(/\ ValidCadence
        /\ onAdvance
        /\ \/ Stop /\ state.StartedAt # ZeroTime
           \/ IsIdle /\ ~(Start \/ Pause \/ Resume \/ Stop)) =>
          notified' = NoNote]_vars

ResumedAtZero == rt.stage \in {"resumed", "resume"} /\ rt.frozen = 0

\* C19: Resume() on an engine paused with a frozen remaining of exactly 0
\* records a new un-canceled watcher at its select with its timer armed and,
\* on realClock, EndsAt and the timer's deadline equal to the current time;
\* and with LongEvery >= 1, realClock and fair scheduling (and the count
\* below its bound) a deadline transition with its notification follows
\* unless Pause, Start or Stop comes first.
C19_ResumeAtZeroAdvances ==
    /\ [](ResumedAtZero =>
            /\ cancel # Nil
            /\ ~watchers[cancel].canceled
            /\ watchers[cancel].st = "select"
            /\ watchers[cancel].tm = "armed"
            /\ ~fake => (state.EndsAt = wall /\ watchers[cancel].deadline = wall))
    /\ (/\ ResumedAtZero
        /\ ~fake
        /\ ValidCadence
        /\ state.Phase = PhaseWork => state.PomodoroDone < MaxDone)
          ~> \/ rt.stage = "advanced" /\ (onAdvance => notified.kind = "advance")
             \/ rt.stage \in {"paused", "started", "stopped"}

\* Resume() right after a Pause() that found a started phase at or past its
\* deadline: the timer of the new watcher is due at once
C19_Witness ==
    /\ ResumedAtZero
    /\ rt.stage = "resumed"
    /\ rt.started
    /\ ~fake
    /\ ValidCadence
    /\ state.PomodoroDone < MaxDone
    /\ watchers[cancel].deadline = wall

\* the idle state as the engine's readers see it: StartedAt unset, no
\* watcher recorded, phase WORK
IdleView ==
    /\ state.StartedAt = ZeroTime
    /\ cancel = Nil
    /\ state.Phase = PhaseWork

\* C20: with LongEvery >= 1, a step other than Start() taken by an idle
\* engine (a Pause(), a Resume(), the firing of an old timer and what its
\* watcher then does) leaves it idle; Pause() on an idle engine does not
\* pause it; and a started engine becomes idle only by Stop().
C20_IdleLeftOnlyByStart ==
    [][ValidCadence =>
          /\ (IdleView /\ ~Start) => IdleView'
          /\ (IdleView /\ ~state.Paused /\ Pause) => ~state'.Paused
          /\ (~IdleView /\ IdleView') => Stop]_vars

\* the engine has been started and is not paused
Running == state.StartedAt # ZeroTime /\ ~state.Paused

C22_AdvanceNotifiesCommittedState ==
    rt.stage = "advanced" =>
        notified = IF onAdvance THEN [kind |-> "advance", snap |-> state]
                   ELSE NoNote

\* a WORK phase has just ended in a break and the subscriber is handed the
\* new count
C22_Witness ==
    /\ rt.stage = "advanced"
    /\ onAdvance
    /\ notified.kind = "advance"
    /\ notified.snap.Phase # PhaseWork
    /\ notified.snap.PomodoroDone >= 1
    /\ notified.snap.EndsAt > notified.snap.StartedAt

\* C23: whatever the wall clock reads, Remaining() on a running engine, the
\* remaining that Pause() stores, and the wait that Start() and Resume() give
\* to the watcher's timer are each max(EndsAt - Clock.Now(), 0), with
\* Clock.Now() the reading of the injected Clock.
C23_TimingOnlyThroughClock ==
    /\ [](Running => Remaining = Max(state.EndsAt - ClockNow, 0))
    /\ [](rt.stage = "paused" =>
            pausedRemain = Max(state.EndsAt - ClockNow, 0))
    /\ [][(Start \/ (Resume /\ state.Paused)) =>
            (IF fake THEN fakeNow' - fakeNow
                     ELSE watchers'[cancel'].deadline - wall)
                = Max(state'.EndsAt - ClockNow, 0)]_vars

\* PomodoroDone has reached the bound past which no WORK phase is completed
AtCountBound == state.Phase = PhaseWork /\ state.PomodoroDone >= MaxDone

\* with LongEvery >= 1 and every goroutine scheduled, a canceled watcher
\* that is the w-th oldest sees itself or an older one return (or the count
\* at its bound); as the older ones are canceled too and only finitely many,
\* every canceled watcher returns
CanceledWatchersExit ==
    \A w \in 1..MaxWatchers :
        (ValidCadence /\ w \in DOMAIN watchers /\ watchers[w].canceled)
            ~> (rt.gone \in 1..w \/ AtCountBound)

====
